---- MODULE Spec2Model ----
(***************************************************************************)
(* ABQ data entry: the storage back-ends (SQLModel, CSVModel), the         *)
(* validated input widgets and the upload helpers, as state machines.      *)
(*                                                                         *)
(* Strings that the code inspects character by character (widget content, *)
(* combobox values) are sequences of one-character strings.                *)
(***************************************************************************)
EXTENDS Integers, Sequences, FiniteSets, TLC

VARIABLES
    \* ---- a validated widget (widgets.py) ----
    widget,         \* its class and settings (a WidgetCfg)
    content,        \* the text in the entry (self.get())
    error,          \* the error variable's text
    foreground,     \* the text colour set by _toggle_error
    validate,       \* Tk's -validate option: "all", or "none" once Tk turned it off
    wlast,          \* history: the last event [event, valid, raised, via, args]
    wcall,          \* history: the validator _validate called last (kept for TestClass)
    deleted,        \* history: some key event was a deletion
    \* ---- SQLModel (models.py) ----
    lab_checks,     \* table lab_checks: set of rows [date, time, lab_id, lab_tech]
    plot_checks,    \* table plot_checks: set of rows [date, time, lab_id, plot, seed_sample, equipment_fault]
    last_write,     \* SQLModel.last_write ("unset" before the first save_record)
    sqlLast,        \* history: the last save_record call [rec, outcome]
    saved,          \* history: key -> record of the most recent successful save
    lastTech,       \* history: (date,time,lab) -> Technician of the most recent successful save
    sqlFailed,      \* history: some save_record call raised
    \* ---- the file system and CSVModel (models.py) ----
    files,          \* path -> the lines of the file at that path (no entry: no file)
    csvLast,        \* history: the last CSVModel.save_record call [data, row_number, raised]
    appends,        \* history: the number of save_record calls without row_number
    \* ---- Application (application.py) and its uploader threads (network.py) ----
    filename,       \* Application.filename (a path)
    data_model,     \* Application.data_model: the SQLModel or a CSVModel and its file
    tmpdirs,        \* the number of directories mkdtemp() has created
    uploaders,      \* the CorporateRestUploaderWithQueue threads started, in order
    queues,         \* queues[i]: the messages in the Queue given to uploaders[i]
    pollers,        \* the queues with a check_queue call scheduled by after()
    calling,        \* the queue upload_to_corporate_rest is about to call check_queue on, or 0
    status,         \* Application.status
    messagebox,     \* history: the last message box shown
    extract,        \* history: the last _create_csv_extract call
    handled,        \* history: handled[i]: the messages check_queue took from queues[i]
    ftpLast,        \* history: the last upload_to_corporate_ftp call
    \* ---- the record form (views.py) and the session (application.py) ----
    form,           \* DataRecordForm: the content of each input
    settings,       \* the settings "autofill date" and "autofill sheet data"
    records_saved,  \* Application.records_saved
    inserted_rows,  \* Application.inserted_rows
    updated_rows,   \* Application.updated_rows
    recordlist,     \* the rows RecordList shows (populate_recordlist)
    saveLast        \* history: the number of on_save calls and the last one's outcome

sqlvars == <<lab_checks, plot_checks, last_write, sqlLast, saved, lastTech, sqlFailed>>

wvars == <<widget, content, error, foreground, validate, wlast, wcall, deleted>>

csvvars == <<files, csvLast, appends>>

appvars == <<filename, data_model, tmpdirs, uploaders, queues, pollers, calling,
             status, messagebox, extract, handled, ftpLast>>

formvars == <<form, settings, records_saved, inserted_rows, updated_rows,
              recordlist, saveLast>>

vars == <<wvars, sqlvars, csvvars, appvars, formvars>>

None == "None"

(***************************************************************************)
(* Strings, as sequences of one-character strings                          *)
(***************************************************************************)

Digits == {"0", "1", "2", "3", "4", "5", "6", "7", "8", "9"}

DigitVal(c) ==
    CASE c = "0" -> 0 [] c = "1" -> 1 [] c = "2" -> 2 [] c = "3" -> 3
      [] c = "4" -> 4 [] c = "5" -> 5 [] c = "6" -> 6 [] c = "7" -> 7
      [] c = "8" -> 8 [] c = "9" -> 9

DigitChar(n) == <<"0", "1", "2", "3", "4", "5", "6", "7", "8", "9">>[n + 1]

\* str(n) for a natural number n
RECURSIVE IntToStr(_)
IntToStr(n) == IF n < 10 THEN <<DigitChar(n)>>
               ELSE IntToStr(n \div 10) \o <<DigitChar(n % 10)>>

\* int(s) for a string of digits ("" gives 0)
RECURSIVE StrToNat(_)
StrToNat(s) == IF s = <<>> THEN 0
               ELSE 10 * StrToNat(SubSeq(s, 1, Len(s) - 1)) + DigitVal(s[Len(s)])

\* str.isdigit()
IsDigitStr(s) == Len(s) > 0 /\ \A i \in 1..Len(s) : s[i] \in Digits

\* Python's `sub in s` for strings
IsSubstring(sub, s) ==
    \E i \in 0..(Len(s) - Len(sub)) : SubSeq(s, i + 1, i + Len(sub)) = sub

\* str.startswith
StartsWith(s, p) == Len(p) <= Len(s) /\ SubSeq(s, 1, Len(p)) = p

\* str.lower(), on the letters the model types
LowerChar(c) ==
    CASE c = "A" -> "a" [] c = "B" -> "b" [] c = "C" -> "c"
      [] c = "D" -> "d" [] c = "E" -> "e" [] OTHER -> c
Lower(s) == [i \in 1..Len(s) |-> LowerChar(s[i])]

\* The entry's content after inserting text c at index i / deleting the
\* character at index i (Tk's %P for a key event).
InsertAt(s, i, c) == SubSeq(s, 1, i) \o c \o SubSeq(s, i + 1, Len(s))
DeleteAt(s, i) == SubSeq(s, 1, i) \o SubSeq(s, i + 2, Len(s))

(***************************************************************************)
(* decimal.Decimal, as [ok, neg, coef, exp]: value (-1)^neg * coef * 10^exp *)
(***************************************************************************)

RECURSIVE Pow10(_)
Pow10(n) == IF n <= 0 THEN 1 ELSE 10 * Pow10(n - 1)

Dec(neg, coef, exp) == [ok |-> TRUE, neg |-> neg, coef |-> coef, exp |-> exp]
InvalidOperation == [ok |-> FALSE, neg |-> FALSE, coef |-> 0, exp |-> 0]

\* Decimal(s) for strings over digits, sign, separators and letters: an
\* optional sign, then digits with at most one '.', at least one digit.
\* Anything else raises InvalidOperation.
Decimal(s) ==
    LET signed == Len(s) > 0 /\ s[1] \in {"-", "+"}
        body   == IF signed THEN Tail(s) ELSE s
        dots   == { i \in 1..Len(body) : body[i] = "." }
        dot    == IF dots = {} THEN Len(body) + 1 ELSE CHOOSE i \in dots : TRUE
        int    == SubSeq(body, 1, dot - 1)
        frac   == SubSeq(body, dot + 1, Len(body))
    IN IF /\ Cardinality(dots) <= 1
          /\ \A i \in 1..Len(body) : body[i] \in Digits \cup {"."}
          /\ Len(int) + Len(frac) > 0
         THEN Dec(signed /\ s[1] = "-", StrToNat(int \o frac), -Len(frac))
         ELSE InvalidOperation

\* The integer d * 10^(-m), for m <= d.exp
DecScaled(d, m) == (IF d.neg THEN -1 ELSE 1) * d.coef * Pow10(d.exp - m)
DecMinExp(a, b) == IF a.exp < b.exp THEN a.exp ELSE b.exp
DecLT(a, b) == DecScaled(a, DecMinExp(a, b)) < DecScaled(b, DecMinExp(a, b))
DecGT(a, b) == DecLT(b, a)
DecGE(a, b) == ~DecLT(a, b)
DecLE(a, b) == ~DecLT(b, a)
DecZero == Dec(FALSE, 0, 0)

(***************************************************************************)
(* datetime.date.fromisoformat                                             *)
(***************************************************************************)

IsLeap(y) == (y % 4 = 0 /\ y % 100 # 0) \/ y % 400 = 0
DaysInMonth(y, m) ==
    IF m = 2 THEN (IF IsLeap(y) THEN 29 ELSE 28)
    ELSE IF m \in {4, 6, 9, 11} THEN 30 ELSE 31

\* date.fromisoformat(s) succeeds (YYYY-MM-DD naming a date of the calendar);
\* otherwise it raises ValueError.
fromisoformat_ok(s) ==
    /\ Len(s) = 10
    /\ s[5] = "-" /\ s[8] = "-"
    /\ \A i \in {1, 2, 3, 4, 6, 7, 9, 10} : s[i] \in Digits
    /\ LET y == StrToNat(SubSeq(s, 1, 4))
           m == StrToNat(SubSeq(s, 6, 7))
           d == StrToNat(SubSeq(s, 9, 10))
       IN y >= 1 /\ m \in 1..12 /\ d >= 1 /\ d <= DaysInMonth(y, m)


(***************************************************************************)
(* Validated widgets (widgets.py)                                          *)
(***************************************************************************)

\* constants.TkAction
TkAction_DEL == <<"0">>
TkAction_INSERT == <<"1">>

\* The texts the validators put in the error variable (without the value
\* or limit that the spin box appends).
NoError == ""
ErrRequired == "A value is required"
ErrInvalidDate == "Invalid date"
ErrInvalidNumber == "Invalid number string"
ErrTooLow == "Value is too low"
ErrTooHigh == "Value is too high"

\* Combobox value lists (CSVModel.fields)
TimeValues == << <<"8", ":", "0", "0">>, <<"1", "2", ":", "0", "0">>,
                 <<"1", "6", ":", "0", "0">>, <<"2", "0", ":", "0", "0">> >>
LabValues == << <<"A">>, <<"B">>, <<"C">>, <<"D">>, <<"E">> >>
PlotValues == [x \in 1..20 |-> IntToStr(x)]

\* Spin box settings: from_, to and precision (the exponent of the normalized
\* increment).  The widget test's box, Humidity and Plants.
SpinTest == [from |-> Dec(TRUE, 1, 0), to |-> Dec(FALSE, 10, 0), precision |-> 0]
SpinHumidity == [from |-> Dec(FALSE, 5, -1), to |-> Dec(FALSE, 520, -1), precision |-> -2]
SpinPlants == [from |-> Dec(FALSE, 0, 0), to |-> Dec(FALSE, 20, 0), precision |-> 0]
NoSpin == [from |-> DecZero, to |-> DecZero, precision |-> 0]

\* A widget's class and settings.  keyMock / focusMock: the return value of a
\* Mock put in place of _key_validate / _focusout_validate ("default": none).
WidgetCfg(cls, values, spin, keyMock, focusMock) ==
    [cls |-> cls, values |-> values, spin |-> spin,
     keyMock |-> keyMock, focusMock |-> focusMock]

MockReturns == {"default", "True", "False"}

Widgets ==
    {WidgetCfg("RequiredEntry", <<>>, NoSpin, "default", "default"),
     WidgetCfg("DateEntry", <<>>, NoSpin, "default", "default")}
    \cup {WidgetCfg("ValidatedCombobox", v, NoSpin, "default", "default") :
            v \in {TimeValues, LabValues, PlotValues}}
    \cup {WidgetCfg("ValidatedSpinBox", <<>>, sp, "default", "default") :
            sp \in {SpinTest, SpinHumidity, SpinPlants}}
    \cup {WidgetCfg("TestClass", <<>>, NoSpin, k, f) :
            k \in MockReturns, f \in MockReturns}

\* What a validator hands back to _validate: its return value, whether it
\* raised instead, the error text it set, and the content it set (if any).
VResult(valid, raised, err, set) ==
    [valid |-> valid, raised |-> raised, error |-> err, set |-> set]

\* ValidatedMixin._focusout_validate / _key_validate
ValidatedMixin_focusout_validate == VResult(TRUE, FALSE, NoError, <<>>)
ValidatedMixin_key_validate == VResult(TRUE, FALSE, NoError, <<>>)

\* A Mock(return_value=...) in place of a validator
Mock(ret) == VResult(ret = "True", FALSE, NoError, <<>>)

\* RequiredEntry._focusout_validate
RequiredEntry_focusout_validate(get) ==
    IF get = <<>> THEN VResult(FALSE, FALSE, ErrRequired, <<>>)
    ELSE VResult(TRUE, FALSE, NoError, <<>>)

\* DateEntry._key_validate
DateEntry_key_validate(action, index, char) ==
    IF action = TkAction_DEL THEN VResult(TRUE, FALSE, NoError, <<>>)
    ELSE IF Len(char) > 1 THEN VResult(TRUE, FALSE, NoError, <<>>)
    ELSE IF IsSubstring(index, <<"0", "1", "2", "3", "5", "6", "8", "9">>)
      THEN VResult(IsDigitStr(char), FALSE, NoError, <<>>)
    ELSE IF IsSubstring(index, <<"4", "7">>)
      THEN VResult(char = <<"-">>, FALSE, NoError, <<>>)
    ELSE VResult(FALSE, FALSE, NoError, <<>>)

\* DateEntry._focusout_validate: the "required" error is set first, then the
\* try/except around date.fromisoformat runs whatever the content is.
DateEntry_focusout_validate(get) ==
    LET required == IF get = <<>> THEN VResult(FALSE, FALSE, ErrRequired, <<>>)
                    ELSE VResult(TRUE, FALSE, NoError, <<>>)
    IN IF fromisoformat_ok(get) THEN required
       ELSE VResult(FALSE, FALSE, ErrInvalidDate, <<>>)

\* The list comprehension of ValidatedCombobox._key_validate
Matching(values, proposed) ==
    SelectSeq(values, LAMBDA x : StartsWith(Lower(x), Lower(proposed)))

\* ValidatedCombobox._key_validate
ValidatedCombobox_key_validate(values, proposed, action) ==
    IF action = TkAction_DEL THEN VResult(TRUE, FALSE, NoError, << <<>> >>)
    ELSE IF Len(Matching(values, proposed)) = 0
      THEN VResult(FALSE, FALSE, NoError, <<>>)
    ELSE IF Len(Matching(values, proposed)) = 1
      THEN VResult(FALSE, FALSE, NoError, <<Matching(values, proposed)[1]>>)
    ELSE VResult(TRUE, FALSE, NoError, <<>>)

\* ValidatedCombobox._focusout_validate
ValidatedCombobox_focusout_validate(get) ==
    IF get = <<>> THEN VResult(FALSE, FALSE, ErrRequired, <<>>)
    ELSE VResult(TRUE, FALSE, NoError, <<>>)

\* [c in current for c in ".,"]: a list of two booleans
SeparatorsInCurrent(current) ==
    <<IsSubstring(<<".">>, current), IsSubstring(<<",">>, current)>>
\* Python's truth value of a list: it is not empty
ListTruth(list) == Len(list) > 0

\* (a key validation without the comparison against `to`)
SpinBoxKeyValidateNoMax(spin, char, index, current, proposed, action) ==
    IF action = TkAction_DEL THEN VResult(TRUE, FALSE, NoError, <<>>)
    ELSE IF ~IsSubstring(char, <<"-", "1", "2", "3", "4", "5", "6", "7", "8", "9",
                                 "0", ".", ",">>)
      THEN VResult(FALSE, FALSE, NoError, <<>>)
    ELSE IF char = <<"-">> /\ (DecGE(spin.from, DecZero) \/ index # <<"0">>)
      THEN VResult(FALSE, FALSE, NoError, <<>>)
    ELSE IF /\ IsSubstring(char, <<".", ",">>)
            /\ (spin.precision >= 0 \/ ListTruth(SeparatorsInCurrent(current)))
      THEN VResult(FALSE, FALSE, NoError, <<>>)
    ELSE IF IsSubstring(proposed, <<"-", ".">>)
      THEN VResult(TRUE, FALSE, NoError, <<>>)
    ELSE IF ~Decimal(proposed).ok
      THEN VResult(FALSE, TRUE, NoError, <<>>)
    ELSE IF Decimal(proposed).exp < spin.precision
      THEN VResult(FALSE, FALSE, NoError, <<>>)
    ELSE VResult(TRUE, FALSE, NoError, <<>>)

\* ValidatedSpinBox._key_validate
ValidatedSpinBox_key_validate(spin, char, index, current, proposed, action) ==
    IF action = TkAction_DEL THEN VResult(TRUE, FALSE, NoError, <<>>)
    ELSE IF ~IsSubstring(char, <<"-", "1", "2", "3", "4", "5", "6", "7", "8", "9",
                                 "0", ".", ",">>)
      THEN VResult(FALSE, FALSE, NoError, <<>>)
    ELSE IF char = <<"-">> /\ (DecGE(spin.from, DecZero) \/ index # <<"0">>)
      THEN VResult(FALSE, FALSE, NoError, <<>>)
    ELSE IF /\ IsSubstring(char, <<".", ",">>)
            /\ (spin.precision >= 0 \/ ListTruth(SeparatorsInCurrent(current)))
      THEN VResult(FALSE, FALSE, NoError, <<>>)
    ELSE IF IsSubstring(proposed, <<"-", ".">>)
      THEN VResult(TRUE, FALSE, NoError, <<>>)
    ELSE IF ~Decimal(proposed).ok
      THEN VResult(FALSE, TRUE, NoError, <<>>)      \* InvalidOperation, not caught
    ELSE IF DecGT(Decimal(proposed), spin.to)
      THEN VResult(FALSE, FALSE, NoError, <<>>)
    ELSE IF Decimal(proposed).exp < spin.precision
      THEN VResult(FALSE, FALSE, NoError, <<>>)
    ELSE VResult(TRUE, FALSE, NoError, <<>>)

\* (a focus-out validation that takes the limit `to` itself for too high)
SpinBoxFocusoutToExclusive(spin, get) ==
    IF ~Decimal(get).ok THEN VResult(FALSE, FALSE, ErrInvalidNumber, <<>>)
    ELSE IF DecGE(Decimal(get), spin.to) THEN VResult(FALSE, FALSE, ErrTooHigh, <<>>)
    ELSE IF DecLT(Decimal(get), spin.from) THEN VResult(FALSE, FALSE, ErrTooLow, <<>>)
    ELSE VResult(TRUE, FALSE, NoError, <<>>)

\* ValidatedSpinBox._focusout_validate
ValidatedSpinBox_focusout_validate(spin, get) ==
    IF ~Decimal(get).ok THEN VResult(FALSE, FALSE, ErrInvalidNumber, <<>>)
    ELSE IF DecGT(Decimal(get), spin.to) THEN VResult(FALSE, FALSE, ErrTooHigh, <<>>)
    ELSE IF DecLT(Decimal(get), spin.from) THEN VResult(FALSE, FALSE, ErrTooLow, <<>>)
    ELSE VResult(TRUE, FALSE, NoError, <<>>)


\* The validators of the widget's class (a Mock set on the instance wins).
focusout_validate(w, get) ==
    IF w.focusMock # "default" THEN Mock(w.focusMock)
    ELSE CASE w.cls = "RequiredEntry" -> RequiredEntry_focusout_validate(get)
           [] w.cls = "DateEntry" -> DateEntry_focusout_validate(get)
           [] w.cls = "ValidatedCombobox" -> ValidatedCombobox_focusout_validate(get)
           [] w.cls = "ValidatedSpinBox" -> ValidatedSpinBox_focusout_validate(w.spin, get)
           [] OTHER -> ValidatedMixin_focusout_validate

key_validate(w, kw) ==
    IF w.keyMock # "default" THEN Mock(w.keyMock)
    ELSE CASE w.cls = "DateEntry" ->
                DateEntry_key_validate(kw.action, kw.index, kw.char)
           [] w.cls = "ValidatedCombobox" ->
                ValidatedCombobox_key_validate(w.values, kw.proposed, kw.action)
           [] w.cls = "ValidatedSpinBox" ->
                ValidatedSpinBox_key_validate(w.spin, kw.char, kw.index, kw.current,
                                              kw.proposed, kw.action)
           [] OTHER -> ValidatedMixin_key_validate

NoCall == [fn |-> "none", kwargs |-> [event |-> "none"]]

\* (a dispatch that takes every event for a focus-out)
ValidateAlwaysFocusout(w, get, kw) ==
    [res |-> focusout_validate(w, get),
     call |-> [fn |-> "_focusout_validate", kwargs |-> [event |-> kw.event]]]

\* ValidatedMixin._validate(proposed, current, char, event, index, action),
\* the arguments as the record kw: the validator's result and the call made.
_validate(w, get, kw) ==
    IF kw.event = "focusout"
      THEN [res |-> focusout_validate(w, get),
            call |-> [fn |-> "_focusout_validate", kwargs |-> [event |-> kw.event]]]
    ELSE IF kw.event = "key"
      THEN [res |-> key_validate(w, kw),
            call |-> [fn |-> "_key_validate", kwargs |-> kw]]
    ELSE [res |-> VResult(TRUE, FALSE, NoError, <<>>), call |-> NoCall]

KwArgs(proposed, current, char, event, index, action) ==
    [proposed |-> proposed, current |-> current, char |-> char, event |-> event,
     index |-> index, action |-> action]

\* Bounds of the model: the longest content typed, by widget class
MaxLen == 3
MaxDateLen == 10
LenLimit(w) == IF w.cls = "DateEntry" THEN MaxDateLen ELSE MaxLen

\* The keys typed, by widget class
KeyChars(w) ==
    CASE w.cls = "DateEntry" -> {"1", "-", "a"}
      [] w.cls = "ValidatedSpinBox" -> {"0", "1", "2", "5", "-", ".", "a"}
      [] w.cls = "ValidatedCombobox" -> {"1", "2", "0", "8", ":", "a", "x"}
      [] OTHER -> {"a", "b"}

Event(event, r, via, kw) ==
    [event |-> event, valid |-> r.res.valid, raised |-> r.res.raised, via |-> via,
     args |-> IF widget.cls = "TestClass" THEN kw ELSE [event |-> kw.event]]

\* The content after a key event that Tk validated with result r: a raised
\* exception or a False rejects the edit; a validator that set the content
\* itself and returned True leaves either its value or the edit (Tk versions
\* differ on whether the pending edit is then dropped).
AfterKey(r, proposed) ==
    IF r.res.raised THEN {content}
    ELSE IF ~r.res.valid THEN (IF r.res.set # <<>> THEN {r.res.set[1]} ELSE {content})
    ELSE IF r.res.set # <<>> THEN {r.res.set[1], proposed}
    ELSE {proposed}

\* (a key event whose _validate does not clear the error text first)
KeyEventKeepsError(kw, isDelete) ==
    /\ deleted' = (deleted \/ isDelete)
    /\ IF validate = "none"
         THEN /\ content' = kw.proposed
              /\ wlast' = [event |-> "edit", valid |-> TRUE, raised |-> FALSE,
                           via |-> "tk", args |-> [event |-> "edit"]]
              /\ UNCHANGED <<widget, error, foreground, validate, wcall>>
         ELSE LET r == _validate(widget, content, kw)
              IN /\ content' \in AfterKey(r, kw.proposed)
                 /\ error' = IF r.res.error # NoError THEN r.res.error ELSE error
                 /\ foreground' = "black"
                 /\ validate' = IF r.res.raised THEN "none" ELSE validate
                 /\ wlast' = Event("key", r, "tk", kw)
                 /\ wcall' = IF widget.cls = "TestClass" THEN r.call ELSE NoCall
                 /\ UNCHANGED widget

\* A key event (validate="all": Tk calls the validatecommand with
\* %P %s %S %V %i %d; with validation turned off the edit just happens).
KeyEvent(kw, isDelete) ==
    /\ deleted' = (deleted \/ isDelete)
    /\ IF validate = "none"
         THEN /\ content' = kw.proposed
              /\ wlast' = [event |-> "edit", valid |-> TRUE, raised |-> FALSE,
                           via |-> "tk", args |-> [event |-> "edit"]]
              /\ UNCHANGED <<widget, error, foreground, validate, wcall>>
         ELSE LET r == _validate(widget, content, kw)
              IN /\ content' \in AfterKey(r, kw.proposed)
                 /\ error' = r.res.error
                 /\ foreground' = "black"
                 /\ validate' = IF r.res.raised THEN "none" ELSE validate
                 /\ wlast' = Event("key", r, "tk", kw)
                 /\ wcall' = IF widget.cls = "TestClass" THEN r.call ELSE NoCall
                 /\ UNCHANGED widget

KeyInsert ==
    \E c \in KeyChars(widget), i \in 0..Len(content) :
        /\ Len(content) < LenLimit(widget)
        /\ KeyEvent(KwArgs(InsertAt(content, i, <<c>>), content, <<c>>, "key",
                           IntToStr(i), TkAction_INSERT), FALSE)

KeyDelete ==
    \E i \in 0..(Len(content) - 1) :
        KeyEvent(KwArgs(DeleteAt(content, i), content, <<content[i + 1]>>, "key",
                        IntToStr(i), TkAction_DEL), TRUE)

\* What a validation that is no key event leaves: the error text, and the
\* colour (_focusout_invalid turns it red when a focus-out validation fails).
NonKeyEvent(kw, via) ==
    LET r == _validate(widget, content, kw)
    IN /\ error' = r.res.error
       /\ foreground' = IF kw.event = "focusout" /\ ~r.res.valid THEN "red" ELSE "black"
       /\ wlast' = Event(kw.event, r, via, kw)
       /\ wcall' = IF widget.cls = "TestClass" THEN r.call ELSE NoCall
       /\ UNCHANGED <<widget, content, validate, deleted>>

\* The widget loses / gets the focus (validate="all")
FocusOut ==
    /\ validate = "all"
    /\ NonKeyEvent(KwArgs(content, content, <<>>, "focusout", <<"-", "1">>,
                          <<"-", "1">>), "tk")
FocusIn ==
    /\ validate = "all"
    /\ NonKeyEvent(KwArgs(content, content, <<>>, "focusin", <<"-", "1">>,
                          <<"-", "1">>), "tk")

\* ValidatedMixin.trigger_focusout_validation()
trigger_focusout_validation ==
    NonKeyEvent(KwArgs(<<>>, <<>>, <<>>, "focusout", <<>>, <<>>), "call")

InitWidget ==
    /\ widget \in Widgets
    /\ content = <<>>
    /\ error = NoError
    /\ foreground = "black"
    /\ validate = "all"
    /\ wlast = [event |-> "none", valid |-> TRUE, raised |-> FALSE, via |-> "tk",
                args |-> [event |-> "none"]]
    /\ wcall = NoCall
    /\ deleted = FALSE


(***************************************************************************)
(* SQLModel                                                                *)
(***************************************************************************)

\* Domains of the form's fields (models.py fields; Lab/Plot/Technician values
\* are loaded from the database in SQLModel.__init__).
Dates == {"2021-01-01", "2021-01-02"}
Times == {"8:00"}
Labs  == {"A"}
Plots == {"1", "2"}
Technicians == {"J Simms", "P Taylor"}
\* Of the remaining plot_checks columns (Seed sample .. Notes) the model keeps
\* two: Seed sample, a string, and Equipment Fault, a boolean.
SeedSamples == {"AX477", "AX478"}

\* The records a client submits: both plots on the first day, plot 1 on the
\* second; two variants of the measured values.
Records == { r \in [Date : Dates, Time : Times, Lab : Labs, Plot : Plots,
                    Technician : Technicians, SeedSample : SeedSamples,
                    Fault : BOOLEAN] :
               /\ r.Date = "2021-01-01" \/ r.Plot = "1"
               /\ r.Fault <=> r.SeedSample = "AX478" }

LcKey(rec) == <<rec.Date, rec.Time, rec.Lab>>
PcKey(rec) == <<rec.Date, rec.Time, rec.Lab, rec.Plot>>

LcRow(rec) == [date |-> rec.Date, time |-> rec.Time, lab_id |-> rec.Lab,
               lab_tech |-> rec.Technician]
PcRow(rec) == [date |-> rec.Date, time |-> rec.Time, lab_id |-> rec.Lab,
               plot |-> rec.Plot, seed_sample |-> rec.SeedSample,
               equipment_fault |-> rec.Fault]

\* data_record_view: plot_checks joined with its lab check (whose technician
\* is the row's "Technician").
DataRecordView ==
    { [Date |-> p[1].date, Time |-> p[1].time, Lab |-> p[1].lab_id,
       Plot |-> p[1].plot, Technician |-> p[2].lab_tech,
       SeedSample |-> p[1].seed_sample, Fault |-> p[1].equipment_fault] :
      p \in { q \in plot_checks \X lab_checks :
                /\ q[1].date = q[2].date
                /\ q[1].time = q[2].time
                /\ q[1].lab_id = q[2].lab_id } }

\* SQLModel.get_record: the rows the SELECT returns (the code returns the
\* first of them, or {} when there is none).
get_record(date, time, lab, plot) ==
    { r \in DataRecordView :
        r.Date = date /\ r.Time = time /\ r.Lab = lab /\ r.Plot = plot }

\* SQLModel.get_lab_check: the rows the SELECT returns.
get_lab_check(date, time, lab) ==
    { r \in lab_checks : r.lab_id = lab /\ r.date = date /\ r.time = time }

\* lc_update_query / lc_insert_query / pc_update_query / pc_insert_query
lc_update_query(rec) ==
    { IF r.date = rec.Date /\ r.time = rec.Time /\ r.lab_id = rec.Lab
        THEN [r EXCEPT !.lab_tech = rec.Technician] ELSE r : r \in lab_checks }
lc_insert_query(rec) == lab_checks \cup {LcRow(rec)}
pc_update_query(rec) ==
    { IF r.date = rec.Date /\ r.time = rec.Time /\ r.lab_id = rec.Lab
         /\ r.plot = rec.Plot
        THEN [r EXCEPT !.seed_sample = rec.SeedSample,
                       !.equipment_fault = rec.Fault]
        ELSE r : r \in plot_checks }
pc_insert_query(rec) == plot_checks \cup {PcRow(rec)}

\* save_record's choice of the lab_checks statement (models.py 336-339)
LcQueryKindByPlot(rec) ==
    IF get_record(rec.Date, rec.Time, rec.Lab, rec.Plot) # {} THEN "update" ELSE "insert"
LcQueryKind(rec) ==
    IF get_lab_check(rec.Date, rec.Time, rec.Lab) # {} THEN "update" ELSE "insert"

\* save_record's choice of the plot_checks statement (models.py 340-345)
PcQueryKindByLab(rec) ==
    IF get_lab_check(rec.Date, rec.Time, rec.Lab) # {} THEN "update" ELSE "insert"
PcQueryKind(rec) ==
    IF get_record(rec.Date, rec.Time, rec.Lab, rec.Plot) # {} THEN "update" ELSE "insert"

\* What can go wrong in SQLModel.query: nothing, or the lab_checks statement
\* or the plot_checks statement raising pg.Error (rolled back, re-raised).
Failures == {"none", "lc", "pc"}

\* SQLModel.save_record(record).  Each query commits on its own, so a failure
\* of the second statement leaves the first one's effect in place.
save_record(rec, fail) ==
    /\ last_write' = PcQueryKind(rec)
    /\ lab_checks' =
         IF fail = "lc" THEN lab_checks
         ELSE IF LcQueryKind(rec) = "update" THEN lc_update_query(rec)
         ELSE lc_insert_query(rec)
    /\ plot_checks' =
         IF fail # "none" THEN plot_checks
         ELSE IF PcQueryKind(rec) = "update" THEN pc_update_query(rec)
         ELSE pc_insert_query(rec)

\* A client calling save_record; the history variables record the call.
SqlSave ==
    \E rec \in Records, fail \in Failures :
        /\ save_record(rec, fail)
        /\ sqlLast' = [rec |-> rec, outcome |-> IF fail = "none" THEN "ok" ELSE "raised"]
        /\ sqlFailed' = (sqlFailed \/ fail # "none")
        /\ saved' = IF fail = "none"
                      THEN [k \in DOMAIN saved \cup {PcKey(rec)} |->
                              IF k = PcKey(rec) THEN rec ELSE saved[k]]
                      ELSE saved
        /\ lastTech' = IF fail = "none"
                         THEN [k \in DOMAIN lastTech \cup {LcKey(rec)} |->
                                 IF k = LcKey(rec) THEN rec.Technician ELSE lastTech[k]]
                         ELSE lastTech

InitStore ==
    /\ lab_checks = {}
    /\ plot_checks = {}
    /\ last_write = "unset"
    /\ sqlLast = [rec |-> None, outcome |-> "none"]
    /\ saved = <<>>
    /\ lastTech = <<>>
    /\ sqlFailed = FALSE

(***************************************************************************)
(* CSVModel (models.py) and the files it writes                            *)
(***************************************************************************)

\* Directories: the working directory, the directory the user picks files in,
\* and the directories mkdtemp() creates, each with a name of its own.
Cwd == [kind |-> "cwd", n |-> 0]
UserDir == [kind |-> "user", n |-> 0]
mkdtemp(n) == [kind |-> "tmp", n |-> n]

\* A path: relative (then `dir` is the working directory) or absolute
RelPath(name) == [abs |-> FALSE, dir |-> Cwd, name |-> name]
AbsPath(dir, name) == [abs |-> TRUE, dir |-> dir, name |-> name]

\* os.path.join(filepath, filename): an absolute `filename` discards `filepath`
os_path_join(filepath, fname) ==
    IF fname.abs THEN fname ELSE AbsPath(filepath, fname.name)

\* CSVModel.__init__: the file the model works on
CSVModel_init(fname, filepath) ==
    IF filepath.kind # "cwd" THEN os_path_join(filepath, fname) ELSE fname

\* The columns the model keeps, and the header line DictWriter.writeheader()
\* writes: each column holding its own name.
FieldNames == {"Date", "Time", "Lab", "Plot", "Technician", "SeedSample", "Fault"}
HeaderLine == [Date |-> "Date", Time |-> "Time", Lab |-> "Lab", Plot |-> "Plot",
               Technician |-> "Technician", SeedSample |-> "Seed sample",
               Fault |-> "Equipment Fault"]

\* str(value) as csv.writer writes a cell: a bool becomes "True" / "False"
BoolStr(b) == IF b THEN "True" ELSE "False"
WriteRow(data) == [f \in FieldNames |-> IF f = "Fault" THEN BoolStr(data[f]) ELSE data[f]]

\* CSVModel.TRUES, and str.lower() of the cells the model writes
TRUES == {"true", "yes", "1"}
LowerWord(cell) == CASE cell = "True" -> "true" [] cell = "False" -> "false"
                     [] OTHER -> cell

\* One record of get_all_records: the cells as strings, the boolean fields
\* converted by `record[key].lower() in self.TRUES`.
ReadRow(line) == [f \in FieldNames |-> IF f = "Fault" THEN LowerWord(line[f]) \in TRUES
                                       ELSE line[f]]

\* os.path.exists(path)
Exists(fs, path) == path \in DOMAIN fs

\* The file system with the file at `path` holding `lines`
WriteFile(fs, path, lines) ==
    [p \in DOMAIN fs \cup {path} |-> IF p = path THEN lines ELSE fs[p]]

\* CSVModel.get_all_records: DictReader takes the first line for the field
\* names and every further line for a record.
CSVModel_get_all_records(fs, path) ==
    IF ~Exists(fs, path) THEN <<>>
    ELSE [i \in 1..(Len(fs[path]) - 1) |-> ReadRow(fs[path][i + 1])]

\* row_number: None, or an integer
NoRow == [none |-> TRUE, n |-> 0]
Row(n) == [none |-> FALSE, n |-> n]

\* records[row_number] for a Python list: the position (from 1) a valid
\* index names, a negative index counting from the end; 0 when the index is
\* out of range (IndexError).
ListIndex(len, n) ==
    IF n >= 0 /\ n < len THEN n + 1
    ELSE IF n < 0 /\ -n <= len THEN len + n + 1
    ELSE 0

\* (a save that opens the file with "w" also when it appends)
CSVModel_save_record_truncating(fs, path, data, row_number) ==
    IF ~row_number.none
      THEN LET records == CSVModel_get_all_records(fs, path)
               at == ListIndex(Len(records), row_number.n)
           IN IF at = 0 THEN [raised |-> TRUE, fs |-> fs]
              ELSE [raised |-> FALSE,
                    fs |-> WriteFile(fs, path,
                             <<HeaderLine>> \o
                             [i \in 1..Len(records) |->
                                WriteRow(IF i = at THEN data ELSE records[i])])]
      ELSE [raised |-> FALSE,
            fs |-> WriteFile(fs, path, <<HeaderLine>> \o <<WriteRow(data)>>)]

\* (a save that writes the header before every appended row)
CSVModel_save_record_header_each(fs, path, data, row_number) ==
    IF ~row_number.none
      THEN LET records == CSVModel_get_all_records(fs, path)
               at == ListIndex(Len(records), row_number.n)
           IN IF at = 0 THEN [raised |-> TRUE, fs |-> fs]
              ELSE [raised |-> FALSE,
                    fs |-> WriteFile(fs, path,
                             <<HeaderLine>> \o
                             [i \in 1..Len(records) |->
                                WriteRow(IF i = at THEN data ELSE records[i])])]
      ELSE [raised |-> FALSE,
            fs |-> WriteFile(fs, path,
                     (IF Exists(fs, path) THEN fs[path] ELSE <<>>)
                     \o <<HeaderLine, WriteRow(data)>>)]

\* CSVModel.save_record(data, row_number): the outcome (IndexError raised or
\* not) and the file system it leaves.
CSVModel_save_record(fs, path, data, row_number) ==
    IF ~row_number.none
      THEN LET records == CSVModel_get_all_records(fs, path)
               at == ListIndex(Len(records), row_number.n)
           IN IF at = 0 THEN [raised |-> TRUE, fs |-> fs]
              ELSE [raised |-> FALSE,
                    fs |-> WriteFile(fs, path,
                             <<HeaderLine>> \o
                             [i \in 1..Len(records) |->
                                WriteRow(IF i = at THEN data ELSE records[i])])]
      ELSE LET newfile == ~Exists(fs, path)
           IN [raised |-> FALSE,
               fs |-> WriteFile(fs, path,
                        (IF newfile THEN <<HeaderLine>> ELSE fs[path])
                        \o <<WriteRow(data)>>)]

\* Bound of the model: the most rows a file gets
MaxRows == 3

\* The file of the CSVModel under study
CsvFile == CSVModel_init(RelPath("abq_data_record.csv"), Cwd)

\* The records the client of the CSV file submits: plot 1, by either
\* technician on the first day and by one on the second.
CsvData == { r \in Records : r.Plot = "1" /\
                              (r.Date = "2021-01-01" \/ r.Technician = "J Simms") }

\* The `data` of the history before any save_record call
NoData == [Date |-> "", Time |-> "", Lab |-> "", Plot |-> "", Technician |-> "",
           SeedSample |-> "", Fault |-> FALSE]

\* A client calling CSVModel.save_record
CsvSave ==
    \E data \in CsvData, row_number \in {NoRow} \cup {Row(n) : n \in -1..MaxRows} :
        LET r == CSVModel_save_record(files, CsvFile, data, row_number)
        IN /\ row_number.none =>
                Len(CSVModel_get_all_records(files, CsvFile)) < MaxRows
           /\ files' = r.fs
           /\ csvLast' = [data |-> data, row_number |-> row_number, raised |-> r.raised]
           /\ appends' = IF row_number.none THEN appends + 1 ELSE appends

InitFiles ==
    /\ files = <<>>
    /\ csvLast = [data |-> NoData, row_number |-> NoRow, raised |-> FALSE]
    /\ appends = 0

(***************************************************************************)
(* Application (application.py): file selection, the upload extract, the   *)
(* REST upload thread (network.py) and the queue poller                    *)
(***************************************************************************)

\* ORDER BY "Date", "Time", "Lab", "Plot": the position of each value in its
\* column's order
DateOrder == <<"2021-01-01", "2021-01-02">>
PlotOrder == <<"1", "2">>
Pos(order, v) == CHOOSE i \in 1..Len(order) : order[i] = v
KeyLE(a, b) ==
    \/ Pos(DateOrder, a.Date) < Pos(DateOrder, b.Date)
    \/ /\ a.Date = b.Date
       /\ Pos(PlotOrder, a.Plot) <= Pos(PlotOrder, b.Plot)

RECURSIVE OrderByKey(_)
OrderByKey(rows) ==
    IF rows = {} THEN <<>>
    ELSE LET first == CHOOSE r \in rows : \A q \in rows : KeyLE(r, q)
         IN <<first>> \o OrderByKey(rows \ {first})

\* The database server's CURRENT_DATE
CURRENT_DATE == "2021-01-02"

\* SQLModel.get_all_records(all_dates):
\*   WHERE NOT %(all_dates)s OR "Date" = CURRENT_DATE  ORDER BY the key
SQLModel_get_all_records(all_dates) ==
    OrderByKey({ r \in DataRecordView : ~all_dates \/ r.Date = CURRENT_DATE })

\* Application.data_model: the SQLModel of database_login, or the CSVModel
\* on_file_select makes.
SQLModel == [kind |-> "sql", filename |-> RelPath("")]
CSVModel(fname) == [kind |-> "csv", filename |-> CSVModel_init(fname, Cwd)]

\* self.data_model.get_all_records()
get_all_records(model, fs) ==
    IF model.kind = "sql" THEN SQLModel_get_all_records(FALSE)
    ELSE CSVModel_get_all_records(fs, model.filename)

\* for record in records: csvmodel.save_record(record)
RECURSIVE SaveEach(_, _, _, _)
SaveEach(fs, csvfile, records, i) ==
    IF i > Len(records) THEN fs
    ELSE SaveEach(CSVModel_save_record(fs, csvfile, records[i], NoRow).fs,
                  csvfile, records, i + 1)

\* Application._create_csv_extract, given the directory mkdtemp() returns:
\* what it returns (None, or csvmodel.filename), the records it read and the
\* file system it leaves.
_create_csv_extract(fs, fname, model, tmpfilepath) ==
    LET csvfile == CSVModel_init(fname, tmpfilepath)
        records == get_all_records(model, fs)
    IN [none |-> records = <<>>,
        csvfile |-> csvfile,
        tmpfilepath |-> tmpfilepath,
        records |-> records,
        fs |-> IF records = <<>> THEN fs ELSE SaveEach(fs, csvfile, records, 1)]

\* network.Message
Message(mstatus, subject, body) == [status |-> mstatus, subject |-> subject, body |-> body]

\* Application.status: the text, with the number or the field names put in it
Status(text, n, fields) == [text |-> text, n |-> n, fields |-> fields]

NoBox == [kind |-> "none", title |-> "", message |-> ""]
NoExtract == [called |-> FALSE, by |-> "none", none |-> TRUE, csvfile |-> RelPath(""),
              tmpfilepath |-> Cwd, records |-> <<>>]
NoFtp == [called |-> FALSE, filepath_none |-> FALSE, outcome |-> "none"]

\* Bound of the model: the most upload menu actions in one run
MaxUploads == 2

\* The file the first start of the day works on, and the file the user picks
\* in the file dialog (asksaveasfilename returns a full path).
default_filename == RelPath("abq_data_record_2021-01-02.csv")
SelectedFile == AbsPath(UserDir, "records.csv")

\* Menu action file->select: the dialog returns a file, or "" on cancel
on_file_select ==
    /\ calling = 0
    /\ \E chosen \in {TRUE, FALSE} :
         IF chosen
           THEN /\ filename' = SelectedFile
                /\ data_model' = CSVModel(SelectedFile)
                /\ recordlist' = CSVModel_get_all_records(files, SelectedFile)
                /\ inserted_rows' = <<>>
                /\ updated_rows' = <<>>
           ELSE UNCHANGED <<filename, data_model, recordlist, inserted_rows,
                            updated_rows>>
    /\ UNCHANGED <<form, settings, records_saved, saveLast>>
    /\ UNCHANGED <<tmpdirs, uploaders, queues, pollers, calling, status,
                   messagebox, extract, handled, ftpLast, files, csvLast, appends>>

\* Menu action upload_to_corporate_rest: the extract, the "No records"
\* warning, the login dialog, and the start of the uploader thread; the call
\* of check_queue that ends it is the next step of the event loop.
upload_to_corporate_rest ==
    /\ calling = 0
    /\ tmpdirs < MaxUploads
    /\ LET x == _create_csv_extract(files, filename, data_model, mkdtemp(tmpdirs + 1))
       IN /\ tmpdirs' = tmpdirs + 1
          /\ files' = x.fs
          /\ extract' = [called |-> TRUE, by |-> "rest", none |-> x.none,
                         csvfile |-> x.csvfile, tmpfilepath |-> x.tmpfilepath,
                         records |-> x.records]
          /\ IF x.none
               THEN /\ messagebox' = [kind |-> "warning", title |-> "No records",
                                      message |-> "There are noe records to upload"]
                    /\ UNCHANGED <<uploaders, queues, handled, calling>>
               ELSE \E result \in {TRUE, FALSE} :
                      IF ~result
                        THEN UNCHANGED <<uploaders, queues, handled, calling, messagebox>>
                        ELSE /\ uploaders' = Append(uploaders,
                                   [pc |-> "start", filepath |-> x.csvfile,
                                    posted |-> <<>>, auth |-> "none", put |-> "none"])
                             /\ queues' = Append(queues, <<>>)
                             /\ handled' = Append(handled, <<>>)
                             /\ calling' = Len(uploaders) + 1
                             /\ UNCHANGED messagebox
    /\ UNCHANGED <<filename, data_model, pollers, status, ftpLast, csvLast, appends>>

\* network.upload_to_corporate_ftp(filepath, ...), called with the extract
\* (None when there are no records): connect and login succeed or raise one
\* of ftp.all_errors; then os.path.basename(filepath), which raises TypeError
\* for None; then the file is opened and stored (a failure there is one of
\* ftp.all_errors too).
FtpOutcomes(filepath_none) ==
    IF filepath_none THEN {"ftp_error", "TypeError"} ELSE {"ftp_error", "stored"}

\* Menu action upload_to_corporate_ftp
upload_to_corporate_ftp ==
    /\ calling = 0
    /\ tmpdirs < MaxUploads
    /\ LET x == _create_csv_extract(files, filename, data_model, mkdtemp(tmpdirs + 1))
       IN /\ tmpdirs' = tmpdirs + 1
          /\ files' = x.fs
          /\ extract' = [called |-> TRUE, by |-> "ftp", none |-> x.none,
                         csvfile |-> x.csvfile, tmpfilepath |-> x.tmpfilepath,
                         records |-> x.records]
          /\ \E result \in {TRUE, FALSE} :
               IF ~result
                 THEN /\ ftpLast' = NoFtp
                      /\ UNCHANGED messagebox
                 ELSE \E outcome \in FtpOutcomes(x.none) :
                        /\ ftpLast' = [called |-> TRUE, filepath_none |-> x.none,
                                       outcome |-> outcome]
                        /\ messagebox' =
                             CASE outcome = "ftp_error" ->
                                    [kind |-> "error", title |-> "Error connecting to ftp",
                                     message |-> "e"]
                               [] outcome = "stored" ->
                                    [kind |-> "info", title |-> "Success",
                                     message |-> "successfully uploaded to FTP server."]
                               [] OTHER -> messagebox
    /\ UNCHANGED <<filename, data_model, uploaders, queues, handled, pollers, calling,
                   status, csvLast, appends>>

\* CorporateRestUploaderWithQueue._putmessage by thread i, which then goes on
\* at pc
_putmessage(i, msg, pc) ==
    /\ queues' = [queues EXCEPT ![i] = Append(@, msg)]
    /\ uploaders' = [uploaders EXCEPT ![i].pc = pc, ![i].posted = Append(@, msg)]

\* CorporateRestUploaderWithQueue.run, step by step.
\* The first message:
run_authenticating ==
    \E i \in 1..Len(uploaders) :
        /\ uploaders[i].pc = "start"
        /\ _putmessage(i, Message("info", "Authenticating", "Authentication"), "auth")
        /\ UNCHANGED <<filename, data_model, tmpdirs, pollers, calling, status,
                       messagebox, extract, handled, ftpLast, files, csvLast, appends>>

\* session.post and raise_for_status: succeeds, or raises
run_auth_post ==
    \E i \in 1..Len(uploaders), ok \in {TRUE, FALSE} :
        /\ uploaders[i].pc = "auth"
        /\ IF ok
             THEN /\ uploaders' = [uploaders EXCEPT ![i].pc = "open", ![i].auth = "ok"]
                  /\ UNCHANGED queues
             ELSE /\ queues' = [queues EXCEPT ![i] =
                        Append(@, Message("error", "Authentication Failure", "e"))]
                  /\ uploaders' = [uploaders EXCEPT
                        ![i].pc = "finished", ![i].auth = "failed",
                        ![i].posted =
                           Append(@, Message("error", "Authentication Failure", "e"))]
        /\ UNCHANGED <<filename, data_model, tmpdirs, pollers, calling, status,
                       messagebox, extract, handled, ftpLast, files, csvLast, appends>>

\* open(self.filepath, "rb"), outside any try: it raises when the file is not
\* there and can raise when it is (OSError), which ends run(); otherwise the
\* second message is put.
run_open ==
    \E i \in 1..Len(uploaders), ok \in {TRUE, FALSE} :
        /\ uploaders[i].pc = "open"
        /\ IF ok /\ Exists(files, uploaders[i].filepath)
             THEN _putmessage(i, Message("info", "Starting Upload", "Staring Upload"),
                              "put")
             ELSE /\ uploaders' = [uploaders EXCEPT ![i].pc = "finished"]
                  /\ UNCHANGED queues
        /\ UNCHANGED <<filename, data_model, tmpdirs, pollers, calling, status,
                       messagebox, extract, handled, ftpLast, files, csvLast, appends>>

\* session.put and raise_for_status: succeeds, or raises
run_put ==
    \E i \in 1..Len(uploaders), ok \in {TRUE, FALSE} :
        /\ uploaders[i].pc = "put"
        /\ LET msg == IF ok THEN Message("done", "Complete", "File successfully uploaded")
                            ELSE Message("error", "Upload Failure", "e")
           IN /\ queues' = [queues EXCEPT ![i] = Append(@, msg)]
              /\ uploaders' = [uploaders EXCEPT
                    ![i].pc = "finished",
                    ![i].put = IF ok THEN "ok" ELSE "failed",
                    ![i].posted = Append(@, msg)]
        /\ UNCHANGED <<filename, data_model, tmpdirs, pollers, calling, status,
                       messagebox, extract, handled, ftpLast, files, csvLast, appends>>

\* check_queue without the two returns: it reschedules itself after a terminal
\* message too.
CheckQueueNoReturn(i) ==
    /\ IF queues[i] # <<>>
         THEN LET item == Head(queues[i])
              IN /\ queues' = [queues EXCEPT ![i] = Tail(@)]
                 /\ handled' = [handled EXCEPT ![i] = Append(@, item)]
                 /\ status' = Status(IF item.status \in {"done", "error"}
                                       THEN item.subject ELSE item.body, 0, <<>>)
                 /\ pollers' = pollers \cup {i}
                 /\ IF item.status \in {"done", "error"}
                      THEN messagebox' = [kind |-> item.status, title |-> item.status,
                                          message |-> item.subject]
                      ELSE UNCHANGED messagebox
         ELSE /\ pollers' = pollers \cup {i}
              /\ UNCHANGED <<queues, handled, status, messagebox>>
    /\ calling' = 0
    /\ UNCHANGED <<filename, data_model, tmpdirs, uploaders, extract, ftpLast,
                   files, csvLast, appends>>

\* Application.check_queue(queue), called by upload_to_corporate_rest or by
\* the after() timer.
check_queue(i) ==
    /\ IF queues[i] # <<>>
         THEN LET item == Head(queues[i])
              IN /\ queues' = [queues EXCEPT ![i] = Tail(@)]
                 /\ handled' = [handled EXCEPT ![i] = Append(@, item)]
                 /\ status' = Status(IF item.status \in {"done", "error"}
                                       THEN item.subject ELSE item.body, 0, <<>>)
                 /\ IF item.status \in {"done", "error"}
                      THEN /\ messagebox' = [kind |-> item.status, title |-> item.status,
                                             message |-> item.subject]
                           /\ pollers' = pollers \ {i}
                      ELSE /\ pollers' = pollers \cup {i}
                           /\ UNCHANGED messagebox
         ELSE /\ pollers' = pollers \cup {i}
              /\ UNCHANGED <<queues, handled, status, messagebox>>
    /\ calling' = 0
    /\ UNCHANGED <<filename, data_model, tmpdirs, uploaders, extract, ftpLast,
                   files, csvLast, appends>>

\* self.check_queue(self.rest_queue) at the end of upload_to_corporate_rest
check_queue_called == calling # 0 /\ check_queue(calling)

\* self.after(100, self.check_queue, queue) firing
check_queue_after == calling = 0 /\ \E i \in pollers : check_queue(i)

(***************************************************************************)
(* DataRecordForm (views.py) and Application.on_save                       *)
(***************************************************************************)

\* The text of each value a form input holds, character by character
FormText(v) ==
    CASE v = "" -> <<>>
      [] v = "2021-01-01" -> <<"2", "0", "2", "1", "-", "0", "1", "-", "0", "1">>
      [] v = "2021-01-02" -> <<"2", "0", "2", "1", "-", "0", "1", "-", "0", "2">>
      [] v = "8:00" -> <<"8", ":", "0", "0">>
      [] v = "A" -> <<"A">>
      [] v = "1" -> <<"1">>
      [] v = "2" -> <<"2">>
      [] v = "J Simms" -> <<"J", " ", "S", "i", "m", "m", "s">>
      [] v = "P Taylor" -> <<"P", " ", "T", "a", "y", "l", "o", "r">>
      [] v = "AX477" -> <<"A", "X", "4", "7", "7">>
      [] v = "AX478" -> <<"A", "X", "4", "7", "8">>

\* self.inputs, in the order DataRecordForm creates them, of those that have
\* trigger_focusout_validation (the Equipment Fault check button has none)
FormFields == <<"Date", "Time", "Technician", "Lab", "Plot", "SeedSample">>

\* LabelInput.field_types: the input class of each field
FieldWidget(name) ==
    CASE name = "Date" -> WidgetCfg("DateEntry", <<>>, NoSpin, "default", "default")
      [] name = "Time" ->
           WidgetCfg("ValidatedCombobox", TimeValues, NoSpin, "default", "default")
      [] name = "Lab" ->
           WidgetCfg("ValidatedCombobox", LabValues, NoSpin, "default", "default")
      [] name = "Plot" ->
           WidgetCfg("ValidatedCombobox", PlotValues, NoSpin, "default", "default")
      [] name = "Technician" ->
           WidgetCfg("ValidatedCombobox",
                     <<FormText("J Simms"), FormText("P Taylor")>>, NoSpin,
                     "default", "default")
      [] OTHER -> WidgetCfg("RequiredEntry", <<>>, NoSpin, "default", "default")

\* widget.input.trigger_focusout_validation(); widget.error.get()
FieldError(name, f) ==
    _validate(FieldWidget(name), FormText(f[name]),
              KwArgs(<<>>, <<>>, <<>>, "focusout", <<>>, <<>>)).res.error

\* DataRecordForm.get_errors: the names of the fields whose error text is
\* not empty, in the order of the inputs
HasError(f, i) == FieldError(FormFields[i], f) # NoError
RECURSIVE ErrorsFrom(_, _)
ErrorsFrom(f, i) ==
    IF i > Len(FormFields) THEN <<>>
    ELSE (IF HasError(f, i) THEN <<FormFields[i]>> ELSE <<>>) \o ErrorsFrom(f, i + 1)
\* (a get_errors that stops at the first field with an error)
GetErrorsFirstOnly(f) ==
    IF ErrorsFrom(f, 1) = <<>> THEN <<>> ELSE <<Head(ErrorsFrom(f, 1))>>
get_errors(f) == ErrorsFrom(f, 1)

\* DataRecordForm.reset
EmptyForm == [Date |-> "", Time |-> "", Technician |-> "", Lab |-> "", Plot |-> "",
              SeedSample |-> "", Fault |-> FALSE]
reset(f, st) ==
    LET cleared == IF st.autofill_date THEN [EmptyForm EXCEPT !.Date = CURRENT_DATE]
                   ELSE EmptyForm
    IN IF ~st.autofill_sheet \/ f.Plot \in {"", PlotOrder[Len(PlotOrder)]}
         THEN cleared
         ELSE [cleared EXCEPT !.Lab = f.Lab, !.Time = f.Time,
                              !.Technician = f.Technician,
                              !.Plot = PlotOrder[Pos(PlotOrder, f.Plot) + 1]]

\* Bound of the model: the most on_save calls in one run
MaxSaves == 2

\* What the user puts into the inputs: a date, a plot, a seed sample, each
\* possibly empty, and the head of the sheet (time, lab, technician) filled
\* in or cleared as a whole.
FormValues(name) ==
    CASE name = "Date" -> {"", "2021-01-01"}
      [] name = "Plot" -> {"", "1", "2"}
      [] OTHER -> {"", "AX477"}
SheetHeads == { [Time |-> "", Lab |-> "", Technician |-> ""],
                [Time |-> "8:00", Lab |-> "A", Technician |-> "J Simms"] }

\* The user changes the content of the inputs
FormEdit ==
    /\ \/ \E name \in {"Date", "Plot", "SeedSample"} : \E v \in FormValues(name) :
            form' = [form EXCEPT ![name] = v]
       \/ \E h \in SheetHeads :
            form' = [form EXCEPT !.Time = h.Time, !.Lab = h.Lab,
                                 !.Technician = h.Technician]
    /\ UNCHANGED <<settings, records_saved, inserted_rows, updated_rows,
                   recordlist, saveLast>>

RowKey(data) == <<data.Date, data.Time, data.Lab, data.Plot>>

\* Application.on_save with field errors: display_errors, return False
on_save_errors ==
    /\ get_errors(form) # <<>>
    /\ status' = Status("Cannot save, error in fields", 0, get_errors(form))
    /\ messagebox' = [kind |-> "error", title |-> "Error",
                      message |-> "Cannot save record"]
    /\ saveLast' = [n |-> saveLast.n + 1, outcome |-> "errors", returned |-> "False"]
    /\ UNCHANGED <<form, records_saved, inserted_rows, updated_rows, recordlist,
                   lab_checks, plot_checks, last_write, files, csvLast, appends>>

\* Application.on_save on the SQLModel: save_record, then lines 164-171
on_save_sql ==
    /\ get_errors(form) = <<>>
    /\ data_model.kind = "sql"
    /\ \E fail \in Failures :
         /\ save_record(form, fail)
         /\ IF fail # "none"
              THEN /\ messagebox' = [kind |-> "error", title |-> "Error",
                                     message |-> "Problem saving record"]
                   /\ status' = Status("Problem saving record", 0, <<>>)
                   /\ UNCHANGED records_saved
              ELSE /\ records_saved' = records_saved + 1
                   /\ status' = Status("records saved this session.",
                                       records_saved + 1, <<>>)
                   /\ UNCHANGED messagebox
         /\ saveLast' = [n |-> saveLast.n + 1,
                         outcome |-> IF fail # "none" THEN "raised" ELSE "saved",
                         returned |-> "None"]
    /\ IF last_write' = "update"
         THEN /\ updated_rows' = Append(updated_rows, RowKey(form))
              /\ UNCHANGED inserted_rows
         ELSE /\ inserted_rows' = Append(inserted_rows, RowKey(form))
              /\ UNCHANGED updated_rows
    /\ recordlist' = SQLModel_get_all_records(FALSE)'
    /\ form' = IF last_write' = "insert" THEN reset(form, settings) ELSE form
    /\ UNCHANGED <<files, csvLast, appends>>

\* Application.on_save on a CSVModel: save_record appends; CSVModel has no
\* attribute last_write, so line 165 raises AttributeError.
on_save_csv ==
    /\ get_errors(form) = <<>>
    /\ data_model.kind = "csv"
    /\ \E fail \in {TRUE, FALSE} :
         LET r == CSVModel_save_record(files, data_model.filename, form, NoRow)
         IN /\ files' = IF fail THEN files ELSE r.fs
            /\ csvLast' = [data |-> form, row_number |-> NoRow, raised |-> fail]
            /\ appends' = IF fail THEN appends ELSE appends + 1
            /\ IF fail
                 THEN /\ messagebox' = [kind |-> "error", title |-> "Error",
                                        message |-> "Problem saving record"]
                      /\ status' = Status("Problem saving record", 0, <<>>)
                      /\ UNCHANGED records_saved
                 ELSE /\ records_saved' = records_saved + 1
                      /\ status' = Status("records saved this session.",
                                          records_saved + 1, <<>>)
                      /\ UNCHANGED messagebox
            /\ saveLast' = [n |-> saveLast.n + 1,
                            outcome |-> IF fail THEN "raised" ELSE "saved",
                            returned |-> "AttributeError"]
    /\ UNCHANGED <<form, inserted_rows, updated_rows, recordlist,
                   lab_checks, plot_checks, last_write>>

\* The Save button: Application.on_save
on_save ==
    /\ calling = 0
    /\ saveLast.n < MaxSaves
    /\ (on_save_errors \/ on_save_sql \/ on_save_csv)
    /\ UNCHANGED <<settings, filename, data_model, tmpdirs, uploaders, queues,
                   pollers, calling, extract, handled, ftpLast, sqlLast, saved,
                   lastTech, sqlFailed>>

DefaultSettings == [autofill_date |-> TRUE, autofill_sheet |-> TRUE]

\* The form and the session after Application.__init__: DataRecordForm ends
\* its construction with reset(), the record list is populated.
IdleSession ==
    /\ form = reset(EmptyForm, settings)
    /\ records_saved = 0
    /\ inserted_rows = <<>>
    /\ updated_rows = <<>>
    /\ recordlist = SQLModel_get_all_records(FALSE)
    /\ saveLast = [n |-> 0, outcome |-> "none", returned |-> "None"]

\* The application after database_login, before any menu action
IdleUploads ==
    /\ filename = default_filename
    /\ data_model = SQLModel
    /\ tmpdirs = 0
    /\ uploaders = <<>>
    /\ queues = <<>>
    /\ pollers = {}
    /\ calling = 0
    /\ status = Status("", 0, <<>>)
    /\ messagebox = NoBox
    /\ extract = NoExtract
    /\ handled = <<>>
    /\ ftpLast = NoFtp

IdleApp == IdleUploads /\ settings = DefaultSettings /\ IdleSession

\* SQLModel used by a single client, from an empty store
IdleWidget == InitWidget /\ widget.cls = "RequiredEntry"

InitSQL == InitStore /\ IdleWidget /\ InitFiles /\ IdleApp

NextSQL == SqlSave /\ UNCHANGED <<wvars, csvvars, appvars, formvars>>

SpecSQL == InitSQL /\ [][NextSQL]_vars

\* One validated widget, typed into from an empty field
InitKeys == InitWidget /\ InitStore /\ InitFiles /\ IdleApp

NextKeys ==
    \/ KeyInsert /\ UNCHANGED <<sqlvars, csvvars, appvars, formvars>>
    \/ KeyDelete /\ UNCHANGED <<sqlvars, csvvars, appvars, formvars>>
    \/ FocusOut /\ UNCHANGED <<sqlvars, csvvars, appvars, formvars>>
    \/ FocusIn /\ UNCHANGED <<sqlvars, csvvars, appvars, formvars>>
    \/ trigger_focusout_validation /\ UNCHANGED <<sqlvars, csvvars, appvars, formvars>>

SpecKeys == InitKeys /\ [][NextKeys]_vars

\* One validated widget whose content was set (LabelInput.set), then
\* validated on focus events
Strs(chars, n) == UNION { [1..k -> chars] : k \in 0..n }

InitFocus ==
    /\ InitStore
    /\ InitFiles
    /\ IdleApp
    /\ widget \in Widgets
    /\ content \in Strs(KeyChars(widget), MaxLen)
    /\ error = NoError
    /\ foreground = "black"
    /\ validate = "all"
    /\ wlast = [event |-> "none", valid |-> TRUE, raised |-> FALSE, via |-> "tk",
                args |-> [event |-> "none"]]
    /\ wcall = NoCall
    /\ deleted = FALSE

NextFocus ==
    \/ FocusOut /\ UNCHANGED <<sqlvars, csvvars, appvars, formvars>>
    \/ FocusIn /\ UNCHANGED <<sqlvars, csvvars, appvars, formvars>>
    \/ trigger_focusout_validation /\ UNCHANGED <<sqlvars, csvvars, appvars, formvars>>

SpecFocus == InitFocus /\ [][NextFocus]_vars

Range(f) == { f[i] : i \in DOMAIN f }

\* The spin box validator called directly, as the test's helper
\* key_validate(new, current) does:
\*   self.vsb._key_validate(new, "end", current, current + new, "1")
\* on the test's box and on boxes as the form makes them (Light: increment 0.1).
SpinLight == [from |-> DecZero, to |-> Dec(FALSE, 1000, -1), precision |-> -1]
SpinBoxes == {SpinTest, SpinHumidity, SpinPlants, SpinLight}
End == <<"e", "n", "d">>

TestKeyValidate ==
    \E new \in KeyChars(widget) :
        LET kw == KwArgs(content \o <<new>>, content, <<new>>, "key", End,
                        TkAction_INSERT)
            r == ValidatedSpinBox_key_validate(widget.spin, kw.char, kw.index,
                                               kw.current, kw.proposed, kw.action)
        IN /\ wlast' = [event |-> "key", valid |-> r.valid, raised |-> r.raised,
                        via |-> "test", args |-> [event |-> "key"]]
           /\ wcall' = [fn |-> "_key_validate", kwargs |-> kw]
           /\ UNCHANGED <<widget, content, error, foreground, validate, deleted>>

InitCall ==
    /\ InitStore
    /\ InitFiles
    /\ IdleApp
    /\ widget \in {WidgetCfg("ValidatedSpinBox", <<>>, sp, "default", "default") :
                     sp \in SpinBoxes}
    /\ content \in Strs(KeyChars(widget), MaxLen)
    /\ error = NoError
    /\ foreground = "black"
    /\ validate = "all"
    /\ wlast = [event |-> "none", valid |-> TRUE, raised |-> FALSE, via |-> "tk",
                args |-> [event |-> "none"]]
    /\ wcall = NoCall
    /\ deleted = FALSE

NextCall == TestKeyValidate /\ UNCHANGED <<sqlvars, csvvars, appvars, formvars>>

SpecCall == InitCall /\ [][NextCall]_vars

KeyCharsAllowed == {"-", "1", "2", "3", "4", "5", "6", "7", "8", "9", "0", ".", ","}

\* C11: _key_validate for one character appended to the current content
\* returns True for a digit appended to '' or to '-' when the resulting number
\* is not above `to`; it returns False when the character is none of
\* '-0123456789.,', when the proposed number exceeds `to`, and when the
\* proposed number has more fractional digits than the increment.
C11_KeyValidateAppend ==
    wlast.via = "test" =>
        LET kw == wcall.kwargs
            d == Decimal(kw.proposed)
        IN /\ (/\ kw.char[1] \in Digits
               /\ kw.current \in {<<>>, <<"-">>}
               /\ ~DecGT(d, widget.spin.to))
              => (wlast.valid /\ ~wlast.raised)
           /\ kw.char[1] \notin KeyCharsAllowed => (~wlast.valid /\ ~wlast.raised)
           /\ (d.ok /\ DecGT(d, widget.spin.to)) => (~wlast.valid /\ ~wlast.raised)
           /\ (d.ok /\ d.exp < widget.spin.precision)
              => (~wlast.valid /\ ~wlast.raised)

\* C11 witness: the test's "non-increment number": "1" appended to "0." on
\* the box with increment 1 is refused.
C11_Witness ==
    /\ wlast.via = "test" /\ widget.spin = SpinTest
    /\ wcall.kwargs.current = <<"0", ".">> /\ wcall.kwargs.char = <<"1">>
    /\ ~wlast.valid /\ ~wlast.raised

\* C20 as stated: in a spin box typed into from an empty field, no key event
\* makes _key_validate raise: once the character checks have passed, the
\* Decimal conversion of the proposed string succeeds.
C20_Original ==
    (widget.cls = "ValidatedSpinBox" /\ wlast.event = "key" /\ wlast.via = "tk")
        => ~wlast.raised

\* C19 as stated: in a spin box whose increment has fractional digits,
\* _key_validate accepts a '.' when the current content holds no separator,
\* and refuses it when the content holds one or the increment is whole.
C19_Original ==
    (wlast.via = "test" /\ wcall.kwargs.char = <<".">>) =>
        (wlast.valid <=>
            /\ widget.spin.precision < 0
            /\ ~IsSubstring(<<".">>, wcall.kwargs.current)
            /\ ~IsSubstring(<<",">>, wcall.kwargs.current))

\* C4: for a ValidatedCombobox typed into from an empty field, a focus-out
\* validation that passes (returns True, error text empty) finds the content
\* among the widget's configured values.
C4_Original ==
    (/\ widget.cls = "ValidatedCombobox"
     /\ wlast.event = "focusout" /\ wlast.valid /\ error = NoError)
    => content \in Range(widget.values)

\* C5: the spin box's focus-out validation returns True exactly when the
\* content parses as a decimal number v with from <= v <= to; the error is
\* "Invalid number string" when it does not parse, "Value is too low" when
\* v < from, "Value is too high" when v > to, and empty when it returns True.
C5_SpinBoxFocusout ==
    (widget.cls = "ValidatedSpinBox" /\ wlast.event = "focusout") =>
        LET v == Decimal(content)
            lo == widget.spin.from
            hi == widget.spin.to
        IN /\ wlast.valid <=> (v.ok /\ DecLE(lo, v) /\ DecLE(v, hi))
           /\ ~v.ok => error = ErrInvalidNumber
           /\ (v.ok /\ DecLT(v, lo)) => error = ErrTooLow
           /\ (v.ok /\ DecGT(v, hi)) => error = ErrTooHigh
           /\ wlast.valid => error = NoError

\* C5 witness: the Humidity box (0.5 .. 52.0) after a focus-out validation of
\* "0.4", "a", "520" or "5.2".
C5_Witness ==
    /\ widget.cls = "ValidatedSpinBox" /\ widget.spin = SpinHumidity
    /\ wlast.event = "focusout"
    /\ \/ content = <<"0", ".", "4">> /\ error = ErrTooLow
       \/ content = <<"5", "2", "0">> /\ error = ErrTooHigh

\* C6: for RequiredEntry, DateEntry and ValidatedCombobox, a focus-out
\* validation of an empty field returns False and leaves the error text
\* "A value is required".
C6_Original ==
    (/\ widget.cls \in {"RequiredEntry", "DateEntry", "ValidatedCombobox"}
     /\ wlast.event = "focusout"
     /\ content = <<>>)
    => (~wlast.valid /\ error = ErrRequired)

MockValue(ret) == IF ret = "default" THEN TRUE ELSE ret = "True"

\* C9: _validate dispatches by event.  For "key" it calls _key_validate with
\* exactly proposed, current, char, event, index and action (the values it
\* received) and returns its result; for "focusout" it calls
\* _focusout_validate with only event="focusout" and returns its result; for
\* any other event it calls neither and returns True, as it does for every
\* event with the mixin's default validators.
C9_ValidateDispatch ==
    widget.cls = "TestClass" =>
        /\ wlast.event = "key" =>
              /\ wcall.fn = "_key_validate"
              /\ DOMAIN wcall.kwargs =
                    {"proposed", "current", "char", "event", "index", "action"}
              /\ wcall.kwargs = wlast.args
              /\ wlast.valid = MockValue(widget.keyMock)
        /\ wlast.event = "focusout" =>
              /\ wcall.fn = "_focusout_validate"
              /\ wcall.kwargs = [event |-> "focusout"]
              /\ wlast.valid = MockValue(widget.focusMock)
        /\ wlast.event \notin {"key", "focusout"} =>
              /\ wcall = NoCall
              /\ wlast.valid

\* C9 witness: as in the test, a key event with _key_validate replaced by a
\* Mock returning False: the key "a" typed into the empty widget.
C9_Witness ==
    /\ widget.cls = "TestClass" /\ widget.keyMock = "False"
    /\ wlast.event = "key" /\ ~wlast.valid
    /\ wcall.fn = "_key_validate"
    /\ wcall.kwargs = KwArgs(<<"a">>, <<>>, <<"a">>, "key", <<"0">>, TkAction_INSERT)

SpinBoxValueAboveTo ==
    /\ widget.cls = "ValidatedSpinBox"
    /\ Decimal(content).ok
    /\ DecGT(Decimal(content), widget.spin.to)

\* C10 as stated: in a spin box typed into from an empty field (single
\* character insertions and deletions), a content that parses as a decimal
\* number never exceeds `to`.
C10_Original == ~SpinBoxValueAboveTo

\* C10 amended: the same for insertions alone, and for insertions and
\* deletions when from >= 0 (no minus sign can be typed).
C10_NotAboveTo ==
    (~deleted \/ DecGE(widget.spin.from, DecZero)) => ~SpinBoxValueAboveTo

\* C10 witness: the test's box (from=-1, to=10) holding "2" after a rejected
\* key ("20" is above 10), no deletion so far.
C10_Witness ==
    /\ widget.cls = "ValidatedSpinBox" /\ widget.spin = SpinTest
    /\ ~deleted
    /\ content = <<"2">>
    /\ wlast.event = "key" /\ ~wlast.valid /\ ~wlast.raised

PcRowsOf(table, rec) ==
    { r \in table : r.date = rec.Date /\ r.time = rec.Time
                     /\ r.lab_id = rec.Lab /\ r.plot = rec.Plot }

\* C1: save_record distinguishes insert from update by the natural key.  In
\* every save_record step, last_write becomes "update" when plot_checks held a
\* row with the record's (Date, Time, Lab, Plot) before the call and "insert"
\* otherwise; and when the call does not raise, in the first case that row is
\* replaced by the record's values (no row added), in the second case the
\* record's row is added to the table.
C1_InsertOrUpdateByKey ==
    [][ LET rec == sqlLast'.rec
            existed == PcRowsOf(plot_checks, rec) # {}
        IN /\ last_write' = IF existed THEN "update" ELSE "insert"
           /\ sqlLast'.outcome = "ok" =>
                 IF existed
                   THEN /\ plot_checks' =
                             (plot_checks \ PcRowsOf(plot_checks, rec)) \cup {PcRow(rec)}
                        /\ Cardinality(plot_checks') = Cardinality(plot_checks)
                   ELSE /\ plot_checks' = plot_checks \cup {PcRow(rec)}
                        /\ Cardinality(plot_checks') = Cardinality(plot_checks) + 1
      ]_vars

\* C12 as stated: save_record is all-or-nothing: a call that raises, at the
\* lab_checks statement or at the plot_checks statement, leaves lab_checks and
\* plot_checks as they were before the call.
C12_Original ==
    [][ sqlLast'.outcome = "raised" =>
            (lab_checks' = lab_checks /\ plot_checks' = plot_checks) ]_vars

\* C1 witness: a successful save_record of a key that already had a row
\* (an update), with another key's row in the table.
C1_Witness ==
    /\ sqlLast.outcome = "ok"
    /\ last_write = "update"
    /\ Cardinality(plot_checks) >= 2

SavedKeys == DOMAIN saved
PcKeysInTable == { <<r.date, r.time, r.lab_id, r.plot>> : r \in plot_checks }
PcRowsWithKey(k) ==
    { r \in plot_checks : <<r.date, r.time, r.lab_id, r.plot>> = k }

\* C2 as stated: after successful save_record calls from an empty store, the
\* store holds exactly one plot-check row per saved key and get_record returns
\* all field values (Technician included) of the most recent save of that key.
C2_Original ==
    ~sqlFailed =>
        /\ PcKeysInTable = SavedKeys
        /\ \A k \in SavedKeys :
              /\ Cardinality(PcRowsWithKey(k)) = 1
              /\ get_record(k[1], k[2], k[3], k[4]) = {saved[k]}

\* C2 amended: after successful save_record calls from an empty store, the
\* store holds exactly one plot-check row per saved key, and get_record
\* returns the plot-check values of the most recent save of that key, with
\* the Technician of the most recent save of the same (Date, Time, Lab).
C2_LatestPerKey ==
    ~sqlFailed =>
        /\ PcKeysInTable = SavedKeys
        /\ \A k \in SavedKeys :
              /\ Cardinality(PcRowsWithKey(k)) = 1
              /\ get_record(k[1], k[2], k[3], k[4]) =
                    {[saved[k] EXCEPT !.Technician = lastTech[LcKey(saved[k])]]}

\* C2 witness: two keys saved without failure, one of them saved twice (the
\* last call was an update), and a key whose own last save named another
\* technician than the latest save of its lab check.
C2_Witness ==
    /\ ~sqlFailed
    /\ Cardinality(SavedKeys) >= 2
    /\ last_write = "update"
    /\ \E k \in SavedKeys : saved[k].Technician # lastTech[LcKey(saved[k])]

\* CSVModel on one file that does not exist at first
InitCSV == InitFiles /\ InitStore /\ IdleWidget /\ IdleApp

NextCSV == CsvSave /\ UNCHANGED <<wvars, sqlvars, appvars, formvars>>

SpecCSV == InitCSV /\ [][NextCSV]_vars

SameKeyRows(records) ==
    \E i, j \in 1..Len(records) : i # j /\ PcKey(records[i]) = PcKey(records[j])

\* C3 as stated: after any sequence of CSVModel.save_record calls, no two
\* rows returned by get_all_records share the same (Date, Time, Lab, Plot).
C3_Original == ~SameKeyRows(CSVModel_get_all_records(files, CsvFile))

\* C3 amended: CSVModel identifies a record by its row number, not by its
\* key: every save_record call without row_number adds one row, whatever its
\* key, and a call with row_number adds none; so get_all_records returns as
\* many rows as there were calls without row_number (and rows can share a key).
C3_RowsAreAppends ==
    Len(CSVModel_get_all_records(files, CsvFile)) = appends

\* C3 witness: two saves of the same key and an update of a row between them
\* or after: the rows sharing a key are both there.
C3_Witness ==
    /\ SameKeyRows(CSVModel_get_all_records(files, CsvFile))
    /\ appends = 2
    /\ ~csvLast.row_number.none /\ ~csvLast.raised

\* The application started on a database and a file system that earlier
\* sessions left: the database empty or holding records, the file the user
\* can select absent or holding rows.
StoredRecords ==
    { {}, { r \in Records : r.Technician = "J Simms" /\ r.SeedSample = "AX477" } }
StoredRow(date, seed) ==
    [Date |-> date, Time |-> "8:00", Lab |-> "A", Plot |-> "1",
     Technician |-> "J Simms", SeedSample |-> seed, Fault |-> seed = "AX478"]
StoredRows ==
    { <<>>,
      <<StoredRow("2021-01-01", "AX478")>>,
      <<StoredRow("2021-01-01", "AX477"), StoredRow("2021-01-02", "AX478")>> }

InitApp ==
    /\ IdleWidget
    /\ \E stored \in StoredRecords :
         /\ lab_checks = { LcRow(r) : r \in stored }
         /\ plot_checks = { PcRow(r) : r \in stored }
    /\ last_write = "unset"
    /\ sqlLast = [rec |-> None, outcome |-> "none"]
    /\ saved = <<>>
    /\ lastTech = <<>>
    /\ sqlFailed = FALSE
    /\ \E exists \in {TRUE, FALSE}, rows \in StoredRows :
         files = IF exists
                   THEN WriteFile(<<>>, SelectedFile,
                          <<HeaderLine>> \o [i \in 1..Len(rows) |-> WriteRow(rows[i])])
                   ELSE <<>>
    /\ csvLast = [data |-> NoData, row_number |-> NoRow, raised |-> FALSE]
    /\ appends = 0
    /\ IdleApp

NextApp ==
    \/ on_file_select /\ UNCHANGED <<wvars, sqlvars>>
    \/ upload_to_corporate_rest /\ UNCHANGED <<wvars, sqlvars, formvars>>
    \/ upload_to_corporate_ftp /\ UNCHANGED <<wvars, sqlvars, formvars>>
    \/ run_authenticating /\ UNCHANGED <<wvars, sqlvars, formvars>>
    \/ run_auth_post /\ UNCHANGED <<wvars, sqlvars, formvars>>
    \/ run_open /\ UNCHANGED <<wvars, sqlvars, formvars>>
    \/ run_put /\ UNCHANGED <<wvars, sqlvars, formvars>>
    \/ check_queue_called /\ UNCHANGED <<wvars, sqlvars, formvars>>
    \/ check_queue_after /\ UNCHANGED <<wvars, sqlvars, formvars>>

SpecApp == InitApp /\ [][NextApp]_vars

Running == { i \in 1..Len(uploaders) : uploaders[i].pc # "finished" }

\* C7 as stated: in every reachable state of the application, whatever the
\* sequence of "upload to corporate REST" menu actions, at most one
\* CorporateRestUploaderWithQueue thread is running.
C7_Original == Cardinality(Running) <= 1

\* C8 as stated: _create_csv_extract returns None when there are no records,
\* and otherwise the path of a file inside the freshly created temporary
\* directory whose rows are exactly the records data_model.get_all_records()
\* returned, in the same order and nothing else, whatever the application's
\* filename (also after a file was selected).
C8_Original ==
    extract.called =>
        IF extract.records = <<>> THEN extract.none
        ELSE /\ ~extract.none
             /\ extract.csvfile.dir = extract.tmpfilepath
             /\ CSVModel_get_all_records(files, extract.csvfile) = extract.records

\* The record form and the Save button, on the database (empty at first) or,
\* after File->Select, on a CSV file (absent at first)
Settings == {DefaultSettings, [autofill_date |-> FALSE, autofill_sheet |-> FALSE]}

InitSave ==
    /\ IdleWidget
    /\ InitStore
    /\ InitFiles
    /\ IdleUploads
    /\ settings \in Settings
    /\ IdleSession

NextSave ==
    \/ FormEdit /\ UNCHANGED <<wvars, sqlvars, csvvars, appvars>>
    \/ on_save /\ UNCHANGED wvars
    \/ on_file_select /\ UNCHANGED <<wvars, sqlvars>>

SpecSave == InitSave /\ [][NextSave]_vars

\* C13 as stated: when data_model.save_record raises during on_save, the
\* session state is unchanged: records_saved is not incremented, no key is
\* appended to inserted_rows or updated_rows, and the form is not reset.
C13_Original ==
    [][ (saveLast'.n = saveLast.n + 1 /\ saveLast'.outcome = "raised") =>
            /\ records_saved' = records_saved
            /\ inserted_rows' = inserted_rows
            /\ updated_rows' = updated_rows
            /\ form' = form ]_vars

FieldsWithError(f) ==
    { FormFields[i] : i \in { j \in 1..Len(FormFields) :
                               FieldError(FormFields[j], f) # NoError } }

\* C14: on_save with at least one field error does not call save_record (the
\* tables, the file and last_write stay as they were), leaves records_saved,
\* inserted_rows, updated_rows and the form contents unchanged, sets the status
\* to "Cannot save, error in fields: ..." naming exactly the fields whose
\* error text is not empty, and returns False.
C14_SaveWithErrors ==
    [][ (saveLast'.n = saveLast.n + 1 /\ FieldsWithError(form) # {}) =>
            /\ UNCHANGED <<lab_checks, plot_checks, last_write, files>>
            /\ UNCHANGED <<records_saved, inserted_rows, updated_rows, form>>
            /\ status'.text = "Cannot save, error in fields"
            /\ Range(status'.fields) = FieldsWithError(form)
            /\ Len(status'.fields) = Cardinality(FieldsWithError(form))
            /\ saveLast'.returned = "False" ]_vars

\* C14 witness: after one record was saved, a Save with exactly two fields
\* in error (of the six validated) was refused.
C14_Witness ==
    /\ saveLast.outcome = "errors"
    /\ records_saved = 1
    /\ Len(status.fields) = 2

\* ---------------------------------------------------------------------------
\* The uploader thread's messages

Terminal(msg) == msg.status \in {"done", "error"}

Terminals(p) == { k \in 1..Len(p) : Terminal(p[k]) }

\* C15: every run of CorporateRestUploaderWithQueue posts 'info' messages
\* followed by exactly one terminal message ('done' or 'error'), which is the
\* last message posted, also when the extract file cannot be opened; 'done'
\* is posted only if authentication and upload both succeeded.
C15_Original ==
    \A i \in 1..Len(uploaders) :
        LET p == uploaders[i].posted
        IN /\ Terminals(p) \subseteq {Len(p)}
           /\ uploaders[i].pc = "finished" => Terminals(p) = {Len(p)} /\ p # <<>>
           /\ \A k \in 1..Len(p) :
                p[k].status = "done" => uploaders[i].auth = "ok" /\ uploaders[i].put = "ok"

\* ---------------------------------------------------------------------------
\* The polling of the queue.  The event loop runs the call of check_queue
\* that ends upload_to_corporate_rest, and fires every timer that after(100,
\* ...) registered: both are weakly fair.  Nothing is assumed of the uploader
\* threads.
PollFairness ==
    /\ WF_vars(check_queue_called /\ UNCHANGED <<wvars, sqlvars, formvars>>)
    /\ \A i \in 1..MaxUploads :
         WF_vars(calling = 0 /\ i \in pollers /\ check_queue(i)
                 /\ UNCHANGED <<wvars, sqlvars, formvars>>)

\* The application on a database that holds records, and the REST uploads
\* of them.
InitPoll ==
    /\ IdleWidget
    /\ LET stored == { r \in Records : r.Technician = "J Simms" /\ r.SeedSample = "AX477" }
       IN /\ lab_checks = { LcRow(r) : r \in stored }
          /\ plot_checks = { PcRow(r) : r \in stored }
    /\ last_write = "unset"
    /\ sqlLast = [rec |-> None, outcome |-> "none"]
    /\ saved = <<>>
    /\ lastTech = <<>>
    /\ sqlFailed = FALSE
    /\ files = <<>>
    /\ csvLast = [data |-> NoData, row_number |-> NoRow, raised |-> FALSE]
    /\ appends = 0
    /\ IdleApp

NextPoll ==
    \/ upload_to_corporate_rest /\ UNCHANGED <<wvars, sqlvars, formvars>>
    \/ run_authenticating /\ UNCHANGED <<wvars, sqlvars, formvars>>
    \/ run_auth_post /\ UNCHANGED <<wvars, sqlvars, formvars>>
    \/ run_open /\ UNCHANGED <<wvars, sqlvars, formvars>>
    \/ run_put /\ UNCHANGED <<wvars, sqlvars, formvars>>
    \/ check_queue_called /\ UNCHANGED <<wvars, sqlvars, formvars>>
    \/ check_queue_after /\ UNCHANGED <<wvars, sqlvars, formvars>>

SpecPoll == InitPoll /\ [][NextPoll]_vars /\ PollFairness

\* The messages of queue i are handled in the order the thread posted them
PollFIFO ==
    \A i \in 1..Len(queues) : handled[i] \o queues[i] = uploaders[i].posted

\* Queue i is polled (or about to be, by the call that follows the start of
\* its thread) exactly while no terminal message of it has been handled, and
\* a terminal message is the last one handled.
PollUntilTerminal ==
    \A i \in 1..Len(queues) :
        /\ (i \in pollers \/ calling = i) <=> Terminals(handled[i]) = {}
        /\ Terminals(handled[i]) \subseteq {Len(handled[i])}

\* A step handles at most one message, of one queue; a terminal message it
\* handles is shown in a message box and in the status bar.
PollOneMessage ==
    /\ \A i \in 1..Len(handled) :
         \/ handled'[i] = handled[i]
         \/ /\ queues[i] # <<>>
            /\ handled'[i] = Append(handled[i], Head(queues[i]))
            /\ \A j \in 1..Len(handled) : j # i => handled'[j] = handled[j]
            /\ Terminal(Head(queues[i])) =>
                 /\ messagebox'.kind = Head(queues[i]).status
                 /\ messagebox'.message = Head(queues[i]).subject
                 /\ status'.text = Head(queues[i]).subject
    /\ \A i \in 1..Len(queues) :
         (calling = i \/ (calling = 0 /\ i \in pollers)) => ENABLED check_queue(i)

\* A terminal message posted to queue i is handled, and the polling of queue i
\* has ended
PollEnds(i) ==
    (i <= Len(uploaders) /\ Terminals(uploaders[i].posted) # {})
        ~> (i <= Len(handled) /\ Terminals(handled[i]) # {} /\ i \notin pollers
            /\ calling # i)

\* C16: check_queue handles the queued messages in FIFO order, at most one per
\* poll, and is never blocked by an empty queue; it reschedules itself while
\* no terminal message has been handled and stops exactly after the first one,
\* so a terminal message the uploader posted is eventually shown and the
\* polling ends.
C16_CheckQueue ==
    /\ [](PollFIFO /\ PollUntilTerminal)
    /\ [][PollOneMessage]_vars
    /\ \A i \in 1..MaxUploads : PollEnds(i)

\* C16 witness: the three messages of a successful upload have been handled
\* in the order posted, the last one is shown and the queue is polled no more.
C16_Witness ==
    \E i \in 1..Len(queues) :
        /\ Len(handled[i]) = 3
        /\ handled[i] = uploaders[i].posted
        /\ handled[i][3].status = "done"
        /\ messagebox.kind = "done"
        /\ i \notin pollers

\* ---------------------------------------------------------------------------
\* Uploads of a model without records

Sorted(list) ==
    \A k \in 1..(Len(list) - 1) : KeyLE(list[k], list[k + 1]) /\ list[k] # list[k + 1]

\* C18: get_all_records(all_dates=True) returns the records of all dates, the
\* default all_dates=False only those of the current date, both ordered by
\* (Date, Time, Lab, Plot).
C18_Original ==
    /\ Range(SQLModel_get_all_records(TRUE)) = DataRecordView
    /\ Range(SQLModel_get_all_records(FALSE)) =
         { r \in DataRecordView : r.Date = CURRENT_DATE }
    /\ Sorted(SQLModel_get_all_records(TRUE))
    /\ Sorted(SQLModel_get_all_records(FALSE))

\* ---------------------------------------------------------------------------
\* The content of a DateEntry

\* A prefix of the YYYY-MM-DD shape: '-' at positions 4 and 7 (counted from
\* 0), digits elsewhere, ten characters at most.
DateShapePrefix(str) ==
    /\ Len(str) <= 10
    /\ \A k \in 1..Len(str) :
         IF k \in {5, 8} THEN str[k] = "-" ELSE IsDigitStr(<<str[k]>>)

\* C21: from an empty DateEntry, after any sequence of single-character key
\* insertions at any cursor index and deletions that _key_validate accepts,
\* the content is a prefix of the YYYY-MM-DD shape.
C21_Original ==
    (widget.cls = "DateEntry" /\ validate = "all") => DateShapePrefix(content)

\* ---------------------------------------------------------------------------
\* The error text of a validated widget

ValidatedTypes == {"RequiredEntry", "DateEntry", "ValidatedCombobox", "ValidatedSpinBox"}

\* The last thing that happened to the widget was a validation event (not the
\* construction, and not an edit made with Tk's validation turned off)
ValidationEventDone == wlast.event \notin {"none", "edit"}

\* After a validation event the error text is non-empty exactly when the
\* event was a focus-out validation that returned False.
ErrorIffFocusoutFailed ==
    (widget.cls \in ValidatedTypes /\ ValidationEventDone) =>
        /\ error # NoError <=>
             (wlast.event = "focusout" /\ ~wlast.raised /\ ~wlast.valid)
        /\ (wlast.event = "focusout" /\ wlast.via = "call" /\ ~wlast.raised) =>
             (~wlast.valid <=> error # NoError)

\* A key event leaves no error text, whatever was shown before
KeyClearsError ==
    (widget.cls \in ValidatedTypes /\ wlast' # wlast /\ wlast'.event = "key") =>
        error' = NoError

\* C22: for RequiredEntry, DateEntry, ValidatedCombobox and ValidatedSpinBox,
\* after any validation event the error text is non-empty if and only if the
\* event was a focus-out validation that returned False; every key event
\* clears a previously shown error, and trigger_focusout_validation returns
\* False exactly when it leaves an error text.
C22_ErrorText == []ErrorIffFocusoutFailed /\ [][KeyClearsError]_vars

\* C22 witness: trigger_focusout_validation on a DateEntry holding a typed
\* text that is no date returned False and left 'Invalid date'.
C22_Witness ==
    /\ widget.cls = "DateEntry"
    /\ content # <<>>
    /\ wlast.event = "focusout" /\ wlast.via = "call" /\ ~wlast.valid
    /\ error = ErrInvalidDate

\* ---------------------------------------------------------------------------
\* CSVModel as an ordered list of records

\* The header is the first line of the file and no other line
HeaderOnce ==
    Exists(files, CsvFile) =>
        /\ files[CsvFile] # <<>>
        /\ files[CsvFile][1] = HeaderLine
        /\ \A i \in 2..Len(files[CsvFile]) : files[CsvFile][i] # HeaderLine

\* What a save_record call does to the list get_all_records returns: without
\* row_number the list gets data as its last element; with row_number n the
\* element at n (as Python indexes a list) is replaced by data, or the call
\* raises IndexError and the list stays as it is.
ListSave ==
    LET old == CSVModel_get_all_records(files, CsvFile)
        new == CSVModel_get_all_records(files', CsvFile)
        at == ListIndex(Len(old), csvLast'.row_number.n)
    IN IF csvLast'.row_number.none
         THEN ~csvLast'.raised /\ new = Append(old, csvLast'.data)
         ELSE /\ csvLast'.raised <=> at = 0
              /\ new = IF at = 0 THEN old ELSE [old EXCEPT ![at] = csvLast'.data]

\* C23: CSVModel behaves as an ordered list of records: save_record(data)
\* appends data as the last row and leaves the earlier rows unchanged,
\* save_record(data, row_number=n) replaces only row n and keeps the row
\* count, and the header is written once per file; so get_all_records returns
\* the rows of the corresponding list, in order.
C23_OrderedList == []HeaderOnce /\ [][ListSave]_vars

\* C23 witness: a file of three rows, not all alike, whose second row was
\* just replaced by the data saved with row_number=1.
C23_Witness ==
    LET rows == CSVModel_get_all_records(files, CsvFile)
    IN /\ Len(rows) = 3
       /\ csvLast.row_number = Row(1) /\ ~csvLast.raised
       /\ rows[2] = csvLast.data
       /\ rows[1] # rows[2] /\ rows[3] # rows[2]







====
